---- MODULE Spec2Model ----
(***************************************************************************)
(* The chat view of src/app/components/chat.tsx and the thread bootstrap   *)
(* route of src/app/api/assistants/threads/route.ts.                       *)
(*                                                                         *)
(* Text is a sequence of tokens.  A token stands for a run of characters   *)
(* that no chunk boundary of the model cuts:                               *)
(*   "nl"   the line feed                                                  *)
(*   "sp"   a space                                                        *)
(*   "pfx"  the six characters `data: `                                    *)
(*   "dcol" the five characters `data:` (what trim leaves of a final pfx)  *)
(*   "done" the six characters `[DONE]`                                    *)
(*   "dh"   the first half of a thread.message.delta frame, up to `"data":`*)
(*   "ta", "tb", "tab", "tn"  the second half of such a frame, holding the *)
(*          content parts a / b / a then b / one part without text         *)
(*   "comp" a whole thread.message.completed frame                         *)
(*   "oth"  a whole frame of another event (valid JSON)                    *)
(*   "bad"  characters that are no JSON at all                             *)
(*   "h", "f"  a letter of a user text / of the stored formData payload    *)
(*   "i", "j"  a letter of an initialMessage prop                          *)
(* JavaScript runs each handler from one await to the next without         *)
(* interleaving, so each action below is one such run.                     *)
(***************************************************************************)
EXTENDS Integers, Sequences, FiniteSets, TLC

\* how many submissions a session of the model may start
MaxStreams == 2
\* how many lines a response body of StreamSpec may hold
MaxLines == 2

VARIABLES
    userInput,            \* useState("")            chat.tsx:50
    messages,             \* useState<MessageType[]> chat.tsx:51
    inputDisabled,        \* useState(false)         chat.tsx:52
    threadId,             \* useState(null)          chat.tsx:53
    assistantMessageRef,  \* useRef("")              chat.tsx:56
    boot,                 \* where createThread is   chat.tsx:67-73
    formData,             \* localStorage item       chat.tsx:216
    initialMessage,       \* the prop                chat.tsx:49
    streams,              \* the sendMessage calls past their guards
    call                  \* the handler that ran last, with its input

vars == <<userInput, messages, inputDisabled, threadId, assistantMessageRef,
          boot, formData, initialMessage, streams, call>>

Null == "null"
Undefined == "undefined"
ThreadIdValue == "thread_1"

\* Truthy as a comparison with null alone
NotNull(v) == v # "null"

\* JavaScript truthiness of threadId: null and undefined are falsy
Truthy(v) == v \notin {Null, Undefined}

\* localStorage.getItem: <<>> is null (no item), <<t>> is the stored text t;
\* null and the empty string are falsy
NoItem == <<>>
Item(t) == <<t>>
TruthyItem(v) == v # NoItem /\ v[1] # <<>>

Min(S) == CHOOSE x \in S : \A y \in S : x <= y
Max(S) == CHOOSE x \in S : \A y \in S : x >= y

-----------------------------------------------------------------------------
(* String helpers *)

\* String.prototype.trim: the spaces at both ends go; a final `data: ` keeps
\* its five non-space characters
Trim(t) ==
    LET keep == {i \in 1..Len(t) : t[i] # "sp"}
        cut  == IF keep = {} THEN <<>> ELSE SubSeq(t, Min(keep), Max(keep))
    IN  IF cut # <<>> /\ cut[Len(cut)] = "pfx"
        THEN SubSeq(cut, 1, Len(cut) - 1) \o <<"dcol">>
        ELSE cut

\* buffer.split(/\r?\n/): the segments between line feeds, k+1 of them for k
\* line feeds (the model's alphabet has no carriage return)
RECURSIVE Split(_)
Split(buf) ==
    LET nls == {i \in 1..Len(buf) : buf[i] = "nl"}
    IN  IF nls = {} THEN <<buf>>
        ELSE <<SubSeq(buf, 1, Min(nls) - 1)>>
                 \o Split(SubSeq(buf, Min(nls) + 1, Len(buf)))

\* if (line.startsWith("data: ")) line = line.slice("data: ".length)
StripPrefix(line) ==
    IF line # <<>> /\ line[1] = "pfx" THEN Tail(line) ELSE line

Tails == {"ta", "tb", "tab", "tn"}

\* the text values `part?.text?.value || ""` of the content parts of a frame
\* whose second half is t
PartValues(t) ==
    CASE t = "ta"  -> << <<"a">> >>
      [] t = "tb"  -> << <<"b">> >>
      [] t = "tab" -> << <<"a">>, <<"b">> >>
      [] t = "tn"  -> << <<>> >>

\* the JSON tokens of a line: white space between them does not count
Core(line) == SelectSeq(line, LAMBDA c : c # "sp")

\* JSON.parse(line) returns instead of throwing
ParsesAsJSON(line) ==
    LET core == Core(line)
    IN  \/ core \in {<<"comp">>, <<"oth">>}
        \/ Len(core) = 2 /\ core[1] = "dh" /\ core[2] \in Tails

\* parsed.event of a line that parses
EventOf(line) ==
    LET core == Core(line)
    IN  IF core = <<"comp">> THEN "thread.message.completed"
        ELSE IF core = <<"oth">> THEN "thread.run.created"
        ELSE "thread.message.delta"

-----------------------------------------------------------------------------
(* The stream-consumption loop, chat.tsx:123-198.  Its state st is a record  *)
(* of buffer (the local of line 121), messages, acc (assistantMessageRef),   *)
(* inputDisabled, and two observations of it: sawTerm (a [DONE] line or a    *)
(* completed event was handled) and msgIdx (the index in messages of the     *)
(* message the loop wrote last, 0 when none)                                 *)

\* ApplyFragment without the role test of line 171
ApplyFragmentAnyRole(msgs, acc) ==
    IF msgs # <<>>
    THEN [msgs EXCEPT ![Len(msgs)] = [role |-> "assistant", text |-> acc]]
    ELSE Append(msgs, [role |-> "assistant", text |-> acc])

\* the updater of setMessages, lines 168-183, applied with the accumulator
ApplyFragment(msgs, acc) ==
    IF msgs # <<>> /\ msgs[Len(msgs)].role = "assistant"
    THEN [msgs EXCEPT ![Len(msgs)] = [role |-> "assistant", text |-> acc]]
    ELSE Append(msgs, [role |-> "assistant", text |-> acc])

\* ForParts with `=` for the `+=` of line 165
RECURSIVE ForPartsAssign(_, _, _)
ForPartsAssign(parts, i, st) ==
    IF i > Len(parts) THEN st
    ELSE LET acc  == parts[i]
             msgs == ApplyFragment(st.messages, acc)
         IN  ForPartsAssign(parts, i + 1,
                            [st EXCEPT !.acc = acc, !.messages = msgs,
                                       !.msgIdx = Len(msgs)])

\* for (const part of contentParts), lines 161-184
RECURSIVE ForParts(_, _, _)
ForParts(parts, i, st) ==
    IF i > Len(parts) THEN st
    ELSE LET acc  == st.acc \o parts[i]
             msgs == ApplyFragment(st.messages, acc)
         IN  ForParts(parts, i + 1,
                      [st EXCEPT !.acc = acc, !.messages = msgs,
                                 !.msgIdx = Len(msgs)])

\* the body of the try block, lines 156-189, for a line that parses
HandleEvent(line, st) ==
    LET ev == EventOf(line)
        s1 == IF ev = "thread.message.delta"
              THEN ForParts(PartValues(Core(line)[2]), 1, st)
              ELSE st
    IN  IF ev = "thread.message.completed"
        THEN [s1 EXCEPT !.inputDisabled = FALSE, !.sawTerm = TRUE]
        ELSE s1

\* the catch block, lines 191-196: the failed line replaces the buffer
HoldLine(line, st) == [st EXCEPT !.buffer = line]

\* ForLines with a catch block that leaves the for loop
RECURSIVE ForLinesLeaveOnError(_, _, _)
ForLinesLeaveOnError(lines, i, st) ==
    IF i > Len(lines) THEN st
    ELSE LET trimmed == Trim(lines[i])
             line    == StripPrefix(trimmed)
         IN  IF trimmed = <<>> THEN ForLinesLeaveOnError(lines, i + 1, st)
             ELSE IF line = <<"done">>
             THEN [st EXCEPT !.inputDisabled = FALSE, !.sawTerm = TRUE]
             ELSE IF ParsesAsJSON(line)
             THEN ForLinesLeaveOnError(lines, i + 1, HandleEvent(line, st))
             ELSE HoldLine(line, st)

\* ForLines with `continue` for the `break` of line 152
RECURSIVE ForLinesContinueAtDone(_, _, _)
ForLinesContinueAtDone(lines, i, st) ==
    IF i > Len(lines) THEN st
    ELSE LET trimmed == Trim(lines[i])
             line    == StripPrefix(trimmed)
         IN  IF trimmed = <<>> THEN ForLinesContinueAtDone(lines, i + 1, st)
             ELSE IF line = <<"done">>
             THEN ForLinesContinueAtDone(lines, i + 1,
                      [st EXCEPT !.inputDisabled = FALSE, !.sawTerm = TRUE])
             ELSE IF ParsesAsJSON(line)
             THEN ForLinesContinueAtDone(lines, i + 1, HandleEvent(line, st))
             ELSE ForLinesContinueAtDone(lines, i + 1, HoldLine(line, st))

\* for (let line of lines), lines 139-197
RECURSIVE ForLines(_, _, _)
ForLines(lines, i, st) ==
    IF i > Len(lines) THEN st
    ELSE LET trimmed == Trim(lines[i])
             line    == StripPrefix(trimmed)
         IN  IF trimmed = <<>> THEN ForLines(lines, i + 1, st)
             ELSE IF line = <<"done">>
             THEN [st EXCEPT !.inputDisabled = FALSE, !.sawTerm = TRUE]
             ELSE IF ParsesAsJSON(line)
             THEN ForLines(lines, i + 1, HandleEvent(line, st))
             ELSE ForLines(lines, i + 1, HoldLine(line, st))

\* one turn of the while loop after a read that returned a chunk,
\* lines 127-197
ProcessChunk(st, chunk) ==
    LET buf   == st.buffer \o chunk
        parts == Split(buf)
        ends  == buf # <<>> /\ buf[Len(buf)] = "nl"
        lines == IF ends THEN parts ELSE SubSeq(parts, 1, Len(parts) - 1)
        rest  == IF ends THEN <<>> ELSE parts[Len(parts)]
    IN  ForLines(lines, 1, [st EXCEPT !.buffer = rest])

-----------------------------------------------------------------------------
(* The thread bootstrap route, route.ts:6-23 *)

\* POST without the `status: 500` of line 18: the Response default is 200
POSTDefaultStatus(outcome) ==
    IF outcome = "created"
    THEN [status |-> "200", body |-> [threadId |-> ThreadIdValue]]
    ELSE [status |-> "200", body |-> [error |-> "Error interno del servidor."]]

\* POST(): outcome is what openai.beta.threads.create() did
POST(outcome) ==
    IF outcome = "created"
    THEN [status |-> "200", body |-> [threadId |-> ThreadIdValue]]
    ELSE [status |-> "500", body |-> [error |-> "Error interno del servidor."]]

\* data.threadId of a parsed response body: undefined when the field is absent
ThreadIdOf(data) ==
    IF "threadId" \in DOMAIN data THEN data.threadId ELSE Undefined

-----------------------------------------------------------------------------
(* The chat view *)

Streams == 1..MaxStreams

IdleStream ==
    [pc |-> "idle", text |-> <<>>, display |-> FALSE, buffer |-> <<>>,
     rest |-> <<>>, body |-> <<>>, log0 |-> <<>>, sawTerm |-> FALSE,
     msgIdx |-> 0]

\* a call that returned: its parameters and locals are gone
DoneStream == [IdleStream EXCEPT !.pc = "done"]

\* the continuation that ran last; text is the text a handler passed on
Ran(op) == [op |-> op, text |-> <<>>]

\* the texts a user types: empty, one space, a letter
UserTexts == {<<>>, <<"sp">>, <<"h">>}

\* what the collaborator that owns the formData key stored before the view
\* was mounted: nothing, a payload, or one space
StoredItems == {NoItem, Item(<<"f">>), Item(<<"sp">>)}

\* the response bodies the message endpoint sends in a session of Spec
SessionBodies ==
    { <<"dh", "ta", "nl", "done", "nl">>,
      <<"dh", "tb", "nl">>,
      <<"bad", "nl", "done", "nl">>,
      <<>> }

InFlight(s) == streams[s].pc \in {"fetching", "reading"}
Started == {s \in Streams : streams[s].pc # "idle"}

\* the view after its first render and its mount effects: createThread has
\* sent its request (line 68), and the effect of lines 77-81 has returned at
\* line 85 whatever initialMessage was, since threadId is still null
Init ==
    /\ userInput = <<>>
    /\ messages = <<>>
    /\ inputDisabled = FALSE
    /\ threadId = Null
    /\ assistantMessageRef = <<>>
    /\ boot = "pending"
    /\ formData \in StoredItems
    /\ initialMessage = NoItem
    /\ streams = [s \in Streams |-> IdleStream]
    /\ call = Ran("mount")

\* CreateThreadResolves of an effect without the [] of line 75: the effect
\* runs again after a render and its response is stored again
CreateThreadResolvesEveryRender ==
    /\ boot # "rejected"
    /\ \E outcome \in {"created", "throws"} :
          LET res == POST(outcome)
          IN  /\ threadId' = ThreadIdOf(res.body)
              /\ boot' = res.status
              /\ call' = [op |-> "createThread", text |-> <<>>,
                          outcome |-> outcome, res |-> res]
    /\ UNCHANGED <<userInput, messages, inputDisabled, assistantMessageRef,
                   formData, initialMessage, streams>>

\* CreateThreadResolves of a view whose initialMessage effect has the
\* dependencies [initialMessage, threadId]: the effect runs again in the
\* render that follows setThreadId
CreateThreadResolvesRerunsEffect ==
    /\ boot = "pending"
    /\ \E outcome \in {"created", "throws"} :
          LET res == POST(outcome)
          IN  /\ threadId' = ThreadIdOf(res.body)
              /\ boot' = res.status
              /\ call' = [op |-> "createThread", text |-> <<>>,
                          outcome |-> outcome, res |-> res]
    /\ IF TruthyItem(initialMessage) /\ Truthy(threadId')
          /\ Started # Streams
       THEN /\ streams' = [streams EXCEPT ![Min(Streams \ Started)] =
                   [IdleStream EXCEPT !.pc = "fetching",
                                      !.text = initialMessage[1]]]
            /\ inputDisabled' = TRUE
            /\ userInput' = <<>>
       ELSE UNCHANGED <<streams, inputDisabled, userInput>>
    /\ UNCHANGED <<messages, assistantMessageRef, formData, initialMessage>>

\* createThread resumes with the route's response, lines 71-72
CreateThreadResolves ==
    /\ boot = "pending"
    /\ \E outcome \in {"created", "throws"} :
          LET res == POST(outcome)
          IN  /\ threadId' = ThreadIdOf(res.body)
              /\ boot' = res.status
              /\ call' = [op |-> "createThread", text |-> <<>>,
                          outcome |-> outcome, res |-> res]
    /\ UNCHANGED <<userInput, messages, inputDisabled, assistantMessageRef,
                   formData, initialMessage, streams>>

\* the fetch of line 68 rejects: createThread ends with nothing stored
CreateThreadRejects ==
    /\ boot = "pending"
    /\ boot' = "rejected"
    /\ call' = Ran("createThread")
    /\ UNCHANGED <<userInput, messages, inputDisabled, threadId,
                   assistantMessageRef, formData, initialMessage, streams>>

\* SendMessage with `!text` for the `!text.trim()` of line 84
SendMessageNoTrim(text, displayUserMessage) ==
    IF text = <<>> \/ ~Truthy(threadId) \/ Started = Streams
    THEN UNCHANGED <<userInput, messages, inputDisabled, streams>>
    ELSE LET s == Min(Streams \ Started)
         IN  /\ messages' = IF displayUserMessage
                            THEN Append(messages, [role |-> "user", text |-> text])
                            ELSE messages
             /\ userInput' = <<>>
             /\ inputDisabled' = TRUE
             /\ streams' = [streams EXCEPT ![s] =
                              [IdleStream EXCEPT !.pc = "fetching", !.text = text,
                                                !.display = displayUserMessage]]

\* sendMessage up to its first await, lines 83-98
SendMessage(text, displayUserMessage) ==
    IF Trim(text) = <<>> \/ ~Truthy(threadId)
    THEN UNCHANGED <<userInput, messages, inputDisabled, streams>>
    ELSE LET s == Min(Streams \ Started)
         IN  /\ messages' = IF displayUserMessage
                            THEN Append(messages, [role |-> "user", text |-> text])
                            ELSE messages
             /\ userInput' = <<>>
             /\ inputDisabled' = TRUE
             /\ streams' = [streams EXCEPT ![s] =
                              [IdleStream EXCEPT !.pc = "fetching", !.text = text,
                                                !.display = displayUserMessage]]

\* the model starts at most MaxStreams requests
MayCall(text) ==
    (Trim(text) # <<>> /\ Truthy(threadId)) => Started # Streams

\* onChange of the input, line 237; the input is disabled with the flag
OnChange(t) ==
    /\ ~inputDisabled
    /\ userInput' = t
    /\ call' = Ran("onChange")
    /\ UNCHANGED <<messages, inputDisabled, threadId, assistantMessageRef,
                   boot, formData, initialMessage, streams>>

\* handleSubmit, lines 206-209; the form controls are disabled with the flag
HandleSubmit ==
    /\ ~inputDisabled
    /\ MayCall(userInput)
    /\ SendMessage(userInput, TRUE)
    /\ call' = [op |-> "handleSubmit", text |-> userInput]
    /\ UNCHANGED <<threadId, assistantMessageRef, boot, formData, initialMessage>>

\* HandleStartOrientation with sendMessage(formData) for
\* sendMessage(formData, false)
HandleStartOrientationDisplays ==
    /\ IF TruthyItem(formData)
       THEN MayCall(formData[1]) /\ SendMessage(formData[1], TRUE)
       ELSE UNCHANGED <<userInput, messages, inputDisabled, streams>>
    /\ call' = [op |-> "handleStartOrientation",
                text |-> IF formData = NoItem THEN <<>> ELSE formData[1]]
    /\ UNCHANGED <<threadId, assistantMessageRef, boot, formData, initialMessage>>

\* handleStartOrientation, lines 215-222; its button is never disabled
HandleStartOrientation ==
    /\ IF TruthyItem(formData)
       THEN MayCall(formData[1]) /\ SendMessage(formData[1], FALSE)
       ELSE UNCHANGED <<userInput, messages, inputDisabled, streams>>
    /\ call' = [op |-> "handleStartOrientation",
                text |-> IF formData = NoItem THEN <<>> ELSE formData[1]]
    /\ UNCHANGED <<threadId, assistantMessageRef, boot, formData, initialMessage>>

\* the fetch of line 98 resolves with a body: lines 117-121
FetchResolves(s, body) ==
    /\ streams[s].pc = "fetching"
    /\ assistantMessageRef' = <<>>
    /\ streams' = [streams EXCEPT ![s] =
                     [IdleStream EXCEPT !.pc = "reading", !.rest = body,
                                        !.body = body, !.log0 = messages]]
    /\ call' = Ran("fetchResolves")
    /\ UNCHANGED <<userInput, messages, inputDisabled, threadId, boot, formData, initialMessage>>

\* FetchNoBody without the setInputDisabled(false) of line 113
FetchNoBodyKeepsFlag(s) ==
    /\ streams[s].pc = "fetching"
    /\ streams' = [streams EXCEPT ![s] = DoneStream]
    /\ call' = Ran("fetchNoBody")
    /\ UNCHANGED <<userInput, messages, inputDisabled, threadId,
                   assistantMessageRef, boot, formData, initialMessage>>

\* the fetch resolves with no body: lines 111-115
FetchNoBody(s) ==
    /\ streams[s].pc = "fetching"
    /\ inputDisabled' = FALSE
    /\ streams' = [streams EXCEPT ![s] = DoneStream]
    /\ call' = Ran("fetchNoBody")
    /\ UNCHANGED <<userInput, messages, threadId, assistantMessageRef, boot,
                   formData, initialMessage>>

\* Finish without the statement of line 203
FinishKeepsFlag(s) ==
    /\ streams' = [streams EXCEPT ![s] = DoneStream]
    /\ UNCHANGED <<userInput, messages, inputDisabled, threadId,
                   assistantMessageRef, boot, formData, initialMessage>>

\* the loop is left: the statement after the try, line 203
Finish(s) ==
    /\ inputDisabled' = FALSE
    /\ streams' = [streams EXCEPT ![s] = DoneStream]
    /\ UNCHANGED <<userInput, messages, threadId, assistantMessageRef, boot,
                   formData, initialMessage>>

\* the fetch rejects: lines 199-203
FetchRejects(s) ==
    /\ streams[s].pc = "fetching"
    /\ Finish(s)
    /\ call' = Ran("fetchRejects")

\* reader.read() resolves with the next k tokens of the body: lines 124-197
Read(s, k) ==
    /\ streams[s].pc = "reading"
    /\ k \in 1..Len(streams[s].rest)
    /\ LET chunk == SubSeq(streams[s].rest, 1, k)
           st == ProcessChunk(
                     [buffer |-> streams[s].buffer, messages |-> messages,
                      acc |-> assistantMessageRef,
                      inputDisabled |-> inputDisabled,
                      sawTerm |-> streams[s].sawTerm,
                      msgIdx |-> streams[s].msgIdx], chunk)
       IN  /\ messages' = st.messages
           /\ assistantMessageRef' = st.acc
           /\ inputDisabled' = st.inputDisabled
           /\ streams' = [streams EXCEPT ![s] =
                 [@ EXCEPT !.buffer = st.buffer, !.sawTerm = st.sawTerm,
                           !.msgIdx = st.msgIdx,
                           !.rest = SubSeq(@, k + 1, Len(@))]]
           /\ call' = Ran("read")
    /\ UNCHANGED <<userInput, threadId, boot, formData, initialMessage>>

\* ReadDone with a loop that, at done, processes what the buffer holds as a
\* last line
ReadDoneFlushes(s) ==
    /\ streams[s].pc = "reading"
    /\ streams[s].rest = <<>>
    /\ LET st == ProcessChunk(
                     [buffer |-> streams[s].buffer, messages |-> messages,
                      acc |-> assistantMessageRef,
                      inputDisabled |-> inputDisabled,
                      sawTerm |-> streams[s].sawTerm,
                      msgIdx |-> streams[s].msgIdx], <<"nl">>)
       IN  /\ messages' = st.messages
           /\ assistantMessageRef' = st.acc
    /\ inputDisabled' = FALSE
    /\ streams' = [streams EXCEPT ![s] = DoneStream]
    /\ call' = Ran("readDone")
    /\ UNCHANGED <<userInput, threadId, boot, formData, initialMessage>>

\* reader.read() resolves with done after the whole body: lines 125, 203
ReadDone(s) ==
    /\ streams[s].pc = "reading"
    /\ streams[s].rest = <<>>
    /\ Finish(s)
    /\ call' = Ran("readDone")

\* ReadRejects with a catch block that sends the request again
ReadRejectsRetries(s) ==
    /\ streams[s].pc = "reading"
    /\ streams' = [streams EXCEPT ![s] =
          [IdleStream EXCEPT !.pc = "fetching", !.text = streams[s].text,
                             !.display = streams[s].display]]
    /\ call' = Ran("readRejects")
    /\ UNCHANGED <<userInput, messages, inputDisabled, threadId,
                   assistantMessageRef, boot, formData, initialMessage>>

\* reader.read() rejects: lines 199-203
ReadRejects(s) ==
    /\ streams[s].pc = "reading"
    /\ Finish(s)
    /\ call' = Ran("readRejects")

\* in a session of Spec the endpoint flushes after a line feed or at the end
LineCuts(rest) ==
    {k \in 1..Len(rest) : rest[k] = "nl" \/ k = Len(rest)}

Next ==
    \/ CreateThreadResolves
    \/ CreateThreadRejects
    \/ \E t \in UserTexts : OnChange(t)
    \/ HandleSubmit
    \/ HandleStartOrientation
    \/ \E s \in Streams, b \in SessionBodies : FetchResolves(s, b)
    \/ \E s \in Streams : FetchNoBody(s)
    \/ \E s \in Streams : FetchRejects(s)
    \/ \E s \in Streams : \E k \in LineCuts(streams[s].rest) : Read(s, k)
    \/ \E s \in Streams : ReadDone(s)
    \/ \E s \in Streams : ReadRejects(s)

Spec == Init /\ [][Next]_vars

\* the sessions of Spec in which the user submits and replays only while no
\* submission is in flight
Quiet == \A s \in Streams : ~InFlight(s)

NextQuiet ==
    \/ CreateThreadResolves
    \/ CreateThreadRejects
    \/ \E t \in UserTexts : OnChange(t)
    \/ Quiet /\ HandleSubmit
    \/ Quiet /\ HandleStartOrientation
    \/ \E s \in Streams, b \in SessionBodies : FetchResolves(s, b)
    \/ \E s \in Streams : FetchNoBody(s)
    \/ \E s \in Streams : FetchRejects(s)
    \/ \E s \in Streams : \E k \in LineCuts(streams[s].rest) : Read(s, k)
    \/ \E s \in Streams : ReadDone(s)
    \/ \E s \in Streams : ReadRejects(s)

QuietSpec == Init /\ [][NextQuiet]_vars

-----------------------------------------------------------------------------
(* The view from before its mount, with an initialMessage prop that the      *)
(* parent may change; the responses of MountSpec have no body or fail        *)

InitialMessages == {NoItem, Item(<<"i">>), Item(<<"j">>)}

\* the constructed view before its effects have run
InitMount ==
    /\ userInput = <<>>
    /\ messages = <<>>
    /\ inputDisabled = FALSE
    /\ threadId = Null
    /\ assistantMessageRef = <<>>
    /\ boot = "unmounted"
    /\ formData = Item(<<"f">>)
    /\ initialMessage \in InitialMessages
    /\ streams = [s \in Streams |-> IdleStream]
    /\ call = Ran("render")

\* the effect of lines 77-81, run with the sendMessage of the render that
\* scheduled it
InitialMessageEffect(prop) ==
    IF TruthyItem(prop)
    THEN MayCall(prop[1]) /\ SendMessage(prop[1], FALSE)
    ELSE UNCHANGED <<userInput, messages, inputDisabled, streams>>

\* the effects of the first render, in their order: createThread sends its
\* request and suspends at line 68, then the initialMessage effect runs
Mount ==
    /\ boot = "unmounted"
    /\ boot' = "pending"
    /\ InitialMessageEffect(initialMessage)
    /\ call' = Ran("mount")
    /\ UNCHANGED <<threadId, assistantMessageRef, formData, initialMessage>>

\* the parent passes another initialMessage: the dependency of line 81
\* changed, so the effect runs after the render
InitialMessageChanges(prop) ==
    /\ boot # "unmounted"
    /\ prop # initialMessage
    /\ initialMessage' = prop
    /\ InitialMessageEffect(prop)
    /\ call' = Ran("initialMessageEffect")
    /\ UNCHANGED <<threadId, assistantMessageRef, boot, formData>>

NextMount ==
    \/ Mount
    \/ CreateThreadResolves
    \/ CreateThreadRejects
    \/ \E prop \in InitialMessages : InitialMessageChanges(prop)
    \/ boot # "unmounted" /\ \E t \in UserTexts : OnChange(t)
    \/ boot # "unmounted" /\ HandleSubmit
    \/ boot # "unmounted" /\ HandleStartOrientation
    \/ \E s \in Streams : FetchNoBody(s)
    \/ \E s \in Streams : FetchRejects(s)

MountSpec == InitMount /\ [][NextMount]_vars

-----------------------------------------------------------------------------
(* One response read to its end: StreamSpec starts where the fetch of one   *)
(* submission has just resolved (line 121) with any body of at most         *)
(* MaxLines lines, and cuts the body into chunks at any positions            *)

LineKinds ==
    { <<"dh", "ta">>, <<"pfx", "dh", "tb">>, <<"dh", "tab", "sp">>,
      <<"dh", "tn">>, <<"done">>, <<"pfx", "done">>, <<"comp">>, <<"bad">>,
      <<"dh">>, <<"ta">> }

RECURSIVE Join(_)
Join(ls) == IF ls = <<>> THEN <<>> ELSE ls[1] \o <<"nl">> \o Join(Tail(ls))

\* the bodies of 1..MaxLines lines, the last line with or without its line feed
Bodies ==
    LET full == {Join(ls) : ls \in UNION {[1..m -> LineKinds] : m \in 1..MaxLines}}
    IN  full \cup {SubSeq(b, 1, Len(b) - 1) : b \in full}

\* the log when the response arrives: after a form submission, after a replay
\* on a fresh view, after a replay that follows a finished response
PriorLogs ==
    { <<[role |-> "user", text |-> <<"h">>]>>,
      <<>>,
      <<[role |-> "assistant", text |-> <<"b">>]>> }

InitStream ==
    /\ userInput = <<>>
    /\ messages \in PriorLogs
    /\ inputDisabled = TRUE
    /\ threadId = ThreadIdValue
    /\ assistantMessageRef = <<>>
    /\ boot = "200"
    /\ formData = Item(<<"f">>)
    /\ initialMessage = NoItem
    /\ \E b \in Bodies :
          streams = [s \in Streams |->
                       IF s = 1
                       THEN [IdleStream EXCEPT !.pc = "reading", !.rest = b,
                                               !.body = b, !.log0 = messages]
                       ELSE IdleStream]
    /\ call = Ran("fetchResolves")

NextStream ==
    \/ \E k \in 1..Len(streams[1].rest) : Read(1, k)
    \/ ReadDone(1)
    \/ ReadRejects(1)

StreamSpec == InitStream /\ [][NextStream]_vars

-----------------------------------------------------------------------------
(* Claims *)

IsPrefix(p, q) == Len(p) <= Len(q) /\ SubSeq(q, 1, Len(p)) = p

\* the loop has consumed the whole body of s and awaits the read that
\* returns done; ReadDone leaves the log as it is in this state
AllDelivered(s) == streams[s].pc = "reading" /\ streams[s].rest = <<>>

\* the log the loop leaves when the body arrives in one read
SingleReadLog(log0, body) ==
    LET st0 == [buffer |-> <<>>, messages |-> log0, acc |-> <<>>,
                inputDisabled |-> TRUE, sawTerm |-> FALSE, msgIdx |-> 0]
    IN  IF body = <<>> THEN log0 ELSE ProcessChunk(st0, body).messages

\* C1: whatever the positions at which the body is cut into reads, the log
\* at the end of the body is the log that one read of the whole body leaves
C1_SplitIndependent ==
    \A s \in Streams :
        AllDelivered(s) =>
            messages = SingleReadLog(streams[s].log0, streams[s].body)

\* the lines of a body that ends with a line feed
LinesOf(body) == SubSeq(Split(body), 1, Len(Split(body)) - 1)

IsDeltaLine(l) ==
    Core(l) \in {<<"dh", t>> : t \in Tails} \cup {<<"pfx", "dh", t>> : t \in Tails}
IsDoneLine(l) == Trim(l) \in {<<"done">>, <<"pfx", "done">>}

\* a body of delta events only, each on a line of its own, with or without
\* a final [DONE] line
DeltasOnly(body) ==
    /\ body # <<>>
    /\ body[Len(body)] = "nl"
    /\ IsDeltaLine(LinesOf(body)[1])
    /\ \A i \in 2..Len(LinesOf(body)) :
          \/ IsDeltaLine(LinesOf(body)[i])
          \/ i = Len(LinesOf(body)) /\ IsDoneLine(LinesOf(body)[i])

\* the text values a body carries, in the order of the body
RECURSIVE ValuesOf(_)
ValuesOf(body) ==
    IF body = <<>> THEN <<>>
    ELSE (CASE body[1] = "ta"  -> <<"a">>
            [] body[1] = "tb"  -> <<"b">>
            [] body[1] = "tab" -> <<"a", "b">>
            [] OTHER -> <<>>) \o ValuesOf(Tail(body))

C3_NoOverlap ==
    Cardinality({s \in Streams : streams[s].pc = "reading"}) <= 1

\* s enters sendMessage's request in this step
Starts(s) == streams[s].pc = "idle" /\ streams'[s].pc = "fetching"

\* C4: a submission that passes the guards appends its text as one user
\* message when it is displayed and nothing when it is not, and sets the
\* flag; the flag is set as long as a submission is in flight whose stream
\* has neither ended nor failed nor delivered a terminator
C4_DisabledUntilTermination ==
    [][\A s \in Streams :
         /\ Starts(s) =>
               /\ inputDisabled'
               /\ messages' =
                     IF streams'[s].display
                     THEN Append(messages, [role |-> "user",
                                            text |-> streams'[s].text])
                     ELSE messages
         /\ (InFlight(s)' /\ ~streams'[s].sawTerm) => inputDisabled']_vars

\* the streams whose assistant message is receiving fragments
InProgress ==
    {s \in Streams : /\ streams[s].pc = "reading"
                     /\ streams[s].msgIdx > 0
                     /\ ~streams[s].sawTerm}

\* C5: at most one assistant message is in progress, and it is the last
\* element of the log
C5_OneInProgressLast ==
    /\ Cardinality(InProgress) <= 1
    /\ \A s \in InProgress : streams[s].msgIdx = Len(messages)

\* C6: the first fragment of a response that runs alone adds a message to
\* the log and leaves the messages before it as they were
C6_FirstFragmentAppends ==
    [][\A s \in Streams :
         (/\ streams[s].pc = "reading"
          /\ streams[s].msgIdx = 0
          /\ streams'[s].msgIdx > 0
          /\ \A o \in Streams \ {s} : ~InFlight(o))
         => /\ Len(messages') = Len(messages) + 1
            /\ IsPrefix(messages, messages')]_vars

\* C7: a submission of an empty or blank text, through the form or through
\* the replay action, changes nothing and starts no request
C7_BlankIsNoOp ==
    [][(/\ call'.op \in {"handleSubmit", "handleStartOrientation"}
        /\ Trim(call'.text) = <<>>)
       => UNCHANGED <<messages, inputDisabled, userInput,
                      assistantMessageRef, streams, threadId>>]_vars

\* the form was submitted with one space typed, on a view that has a thread,
\* an enabled input and an earlier exchange in its log
C7_Witness ==
    /\ call = [op |-> "handleSubmit", text |-> <<"sp">>]
    /\ userInput = <<"sp">>
    /\ Truthy(threadId)
    /\ messages # <<>>

\* C8: in the step in which a submission's request or read fails, or its
\* body ends, the flag is cleared
C8_EndClearsFlag ==
    [][\A s \in Streams :
         (InFlight(s) /\ streams'[s].pc = "done") => ~inputDisabled']_vars

\* a body that holds no terminator was read to its end
C8_Witness ==
    /\ call.op = "readDone"
    /\ messages = <<[role |-> "assistant", text |-> <<"b">>]>>
    /\ \A s \in Streams : ~InFlight(s)
    /\ ~inputDisabled

\* the chunk that s reads in this step, and the complete lines of its batch
ChunkRead(s) ==
    SubSeq(streams[s].rest, 1, Len(streams[s].rest) - Len(streams'[s].rest))
BatchLines(s) ==
    LET parts == Split(streams[s].buffer \o ChunkRead(s))
    IN  SubSeq(parts, 1, Len(parts) - 1)

\* C9: a batch that holds a [DONE] line leaves the flag cleared, whatever
\* the lines before it
C9_DoneClearsFlag ==
    [][\A s \in Streams :
         (/\ streams[s].pc = "reading"
          /\ streams'[s].pc = "reading"
          /\ Len(streams'[s].rest) < Len(streams[s].rest)
          /\ \E i \in 1..Len(BatchLines(s)) : IsDoneLine(BatchLines(s)[i]))
         => ~inputDisabled']_vars

\* one batch held a line that is no JSON and then a [DONE] line
C9_Witness ==
    /\ streams[1].pc = "reading"
    /\ streams[1].body = <<"bad", "nl", "pfx", "done", "nl">>
    /\ streams[1].rest = <<>>
    /\ streams[1].buffer = <<"bad">>
    /\ ~inputDisabled

BootFailed == boot \in {"500", "rejected"}

\* C10: after a failed bootstrap there is no thread identifier, and no
\* submission or replay has started a request, changed the log or set the
\* flag; the bootstrap is not issued again
C10_FailedBootRejectsAll ==
    [][/\ BootFailed' =>
            /\ ~Truthy(threadId')
            /\ Started' = {}
            /\ messages' = <<>>
            /\ ~inputDisabled'
       /\ BootFailed => boot' = boot]_vars

\* after the route answered 500 the form was submitted with a text
C10_Witness ==
    /\ boot = "500"
    /\ call = [op |-> "handleSubmit", text |-> <<"h">>]
    /\ userInput = <<"h">>

\* C11: a replay with a stored payload that passes sendMessage's guards
\* starts one request that carries the payload, appends no message, sets the
\* flag and clears the input; any other replay (no payload, a blank payload,
\* no thread) changes nothing.  That is what Submit does with the payload,
\* less the user message
C11_ReplayIsSuppressedSubmit ==
    [][call'.op = "handleStartOrientation" =>
         IF /\ TruthyItem(formData)
            /\ Trim(formData[1]) # <<>>
            /\ Truthy(threadId)
         THEN /\ \E s \in Streams :
                    /\ Starts(s)
                    /\ streams'[s].text = formData[1]
                    /\ ~streams'[s].display
                    /\ \A o \in Streams \ {s} : streams'[o] = streams[o]
              /\ messages' = messages
              /\ inputDisabled'
              /\ userInput' = <<>>
              /\ assistantMessageRef' = assistantMessageRef
         ELSE UNCHANGED <<messages, inputDisabled, userInput,
                          assistantMessageRef, streams>>]_vars

\* the payload was replayed after an exchange: its request is pending and
\* the log ends with the assistant message of that exchange, not with a
\* user message
C11_Witness ==
    /\ call = [op |-> "handleStartOrientation", text |-> <<"f">>]
    /\ \E s \in Streams :
          streams[s].pc = "fetching" /\ streams[s].text = <<"f">>
    /\ messages # <<>>
    /\ messages[Len(messages)].role = "assistant"

\* C12: the response of the bootstrap route has status 200 and a body with
\* a non-empty threadId when threads.create() returned, status 500 and a body
\* with an error text and no threadId when it threw, and no other status
C12_BootstrapResponse ==
    (call.op = "createThread" /\ "res" \in DOMAIN call) =>
        LET res == call.res
        IN  /\ res.status \in {"200", "500"}
            /\ call.outcome = "created" =>
                  /\ res.status = "200"
                  /\ "threadId" \in DOMAIN res.body
                  /\ res.body.threadId \notin {"", Null, Undefined}
            /\ call.outcome = "throws" =>
                  /\ res.status = "500"
                  /\ "error" \in DOMAIN res.body
                  /\ res.body.error # ""
                  /\ "threadId" \notin DOMAIN res.body

\* threads.create() threw and the view received the response
C12_Witness ==
    /\ call.op = "createThread"
    /\ "res" \in DOMAIN call
    /\ call.outcome = "throws"
    /\ call.res.status = "500"
    /\ threadId = Undefined

\* C13: the one bootstrap request of the session is answered once and no
\* other is issued (its outcome, once known, stays), and the thread
\* identifier changes only in the step that stores that answer, from null;
\* no submission, replay or stream step changes it
C13_ThreadIdSetOnce ==
    [][/\ boot # "pending" => boot' = boot
       /\ threadId' # threadId =>
             /\ threadId = Null
             /\ boot = "pending"
             /\ call'.op = "createThread"]_vars

\* with the identifier stored, a submission and a replay ran and a stream
\* delivered a fragment: the identifier is the one the bootstrap returned
C13_Witness ==
    /\ threadId = ThreadIdValue
    /\ boot = "200"
    /\ Started = Streams
    /\ call.op = "read"
    /\ messages # <<>>
    /\ messages[Len(messages)].role = "assistant"

\* s reads a chunk in this step
ReadsChunk(s) ==
    /\ streams[s].pc = "reading"
    /\ streams'[s].pc = "reading"
    /\ Len(streams'[s].rest) < Len(streams[s].rest)

\* the lines of a batch that reach JSON.parse and make it throw
FailedLines(lines) ==
    {i \in 1..Len(lines) :
        /\ Trim(lines[i]) # <<>>
        /\ ~IsDoneLine(lines[i])
        /\ ~ParsesAsJSON(StripPrefix(Trim(lines[i])))
        /\ \A j \in 1..(i - 1) : ~IsDoneLine(lines[j])}

\* C14: a line of a batch that fails to parse is, trimmed and without its
\* prefix, the carry-over buffer that the next chunk is appended to; when
\* the buffer holds a fragment and the first line of the next batch joins
\* it into a delta frame, the values of that frame are added to the
\* accumulator and written to the last message of the log
C14_FailedLineHeld ==
    [][\A s \in Streams :
         ReadsChunk(s) =>
            /\ \A i \in FailedLines(BatchLines(s)) :
                  streams'[s].buffer = StripPrefix(Trim(BatchLines(s)[i]))
            /\ (/\ streams[s].buffer # <<>>
                /\ BatchLines(s) # <<>>
                /\ IsDeltaLine(BatchLines(s)[1]))
               => /\ IsPrefix(assistantMessageRef
                                 \o ValuesOf(BatchLines(s)[1]),
                              assistantMessageRef')
                  /\ messages' # <<>>
                  /\ messages'[Len(messages')].role = "assistant"]_vars

\* the index of the first [DONE] line of a batch, 0 when it has none
FirstDone(lines) ==
    LET ds == {i \in 1..Len(lines) : IsDoneLine(lines[i])}
    IN  IF ds = {} THEN 0 ELSE Min(ds)

\* C15: a batch with a [DONE] line, with or without the prefix, leaves the
\* flag cleared and the log, the accumulator and the buffer as the lines
\* before the [DONE] line leave them: the lines after it have no effect.
\* The loop goes on reading, and a later batch of the stream that starts
\* with a delta line writes its values to the last message of the log
C15_DoneStopsBatchOnly ==
    [][\A s \in Streams :
         ReadsChunk(s) =>
            LET lines  == BatchLines(s)
                d      == FirstDone(lines)
                st0    == [buffer |-> <<>>, messages |-> messages,
                           acc |-> assistantMessageRef,
                           inputDisabled |-> inputDisabled,
                           sawTerm |-> streams[s].sawTerm,
                           msgIdx |-> streams[s].msgIdx]
                before == ForLines(SubSeq(lines, 1, d - 1), 1, st0)
            IN  /\ d > 0 =>
                      /\ ~inputDisabled'
                      /\ messages' = before.messages
                      /\ assistantMessageRef' = before.acc
                      /\ streams'[s].pc = "reading"
                /\ (/\ streams[s].sawTerm
                    /\ streams[s].buffer = <<>>
                    /\ lines # <<>>
                    /\ IsDeltaLine(lines[1]))
                   => /\ IsPrefix(assistantMessageRef \o ValuesOf(lines[1]),
                                  assistantMessageRef')
                      /\ messages' # <<>>
                      /\ messages'[Len(messages')].role = "assistant"
                      /\ streams'[s].msgIdx = Len(messages')]_vars

\* the delta that follows the [DONE] line came in a later read and is in
\* the log
C15_Witness ==
    /\ AllDelivered(1)
    /\ streams[1].body = <<"pfx", "done", "nl", "dh", "ta", "nl">>
    /\ streams[1].sawTerm
    /\ ~inputDisabled
    /\ messages # <<>>
    /\ messages[Len(messages)] = [role |-> "assistant", text |-> <<"a">>]

\* C16: a read that fails leaves the log and the accumulator as they were,
\* fragments already applied included, clears the flag and ends that
\* submission; no request is started or started again
C16_ReadFailureKeepsLog ==
    [][call'.op = "readRejects" =>
         /\ messages' = messages
         /\ assistantMessageRef' = assistantMessageRef
         /\ ~inputDisabled'
         /\ \E s \in Streams :
               /\ streams[s].pc = "reading"
               /\ streams'[s].pc = "done"
               /\ \A o \in Streams \ {s} : streams'[o] = streams[o]]_vars

\* the read failed after the first delta of the response was applied: the
\* partial assistant message is in the log and nothing is in flight
C16_Witness ==
    /\ call = Ran("readRejects")
    /\ messages = <<[role |-> "user", text |-> <<"h">>],
                    [role |-> "assistant", text |-> <<"a">>]>>
    /\ ~inputDisabled
    /\ \A s \in Streams : ~InFlight(s)

\* C17: while the flag is set a submission is in flight; with none in
\* flight the input is enabled
C17_DisabledOnlyInFlight ==
    inputDisabled => \E s \in Streams : InFlight(s)

\* the only submission of the session ended at the early return for a
\* response without a body, and the input is enabled
C17_Witness ==
    /\ call = Ran("fetchNoBody")
    /\ Started # {}
    /\ \A s \in Streams : ~InFlight(s)
    /\ ~inputDisabled

\* C18: a step leaves the log as it is, or appends one message to it, or
\* replaces its last element, and that only when the element replaced is an
\* assistant message; so the log never gets shorter and no user message is
\* changed, removed or moved
C18_LogAppendOrReplaceLast ==
    [][\/ messages' = messages
       \/ /\ Len(messages') = Len(messages) + 1
          /\ IsPrefix(messages, messages')
       \/ /\ Len(messages') = Len(messages)
          /\ messages # <<>>
          /\ IsPrefix(SubSeq(messages, 1, Len(messages) - 1), messages')
          /\ messages[Len(messages)].role = "assistant"
          /\ messages'[Len(messages')].role = "assistant"]_vars

\* two exchanges: each user message is where it was appended, each response
\* grew in the last element of the log
C18_Witness ==
    /\ call = Ran("read")
    /\ messages = <<[role |-> "user", text |-> <<"h">>],
                    [role |-> "assistant", text |-> <<"a">>],
                    [role |-> "user", text |-> <<"h">>],
                    [role |-> "assistant", text |-> <<"b">>]>>

\* the part of a body up to its last line feed
Terminated(body) ==
    LET nls == {i \in 1..Len(body) : body[i] = "nl"}
    IN  IF nls = {} THEN <<>> ELSE SubSeq(body, 1, Max(nls))

HasTerminator(text) ==
    \E i \in 1..Len(text) : text[i] \in {"done", "comp"}

\* C19: when a body that does not end with a line feed has been read, its
\* last frame is in the buffer and not in the log: the accumulator holds no
\* more than the values before the last line feed, and the flag is still set
\* unless a terminator came before the last line feed.  The step that ends
\* the loop leaves log and accumulator as they are, whatever the buffer
\* holds, and clears the flag
C19_LeftoverNeverProcessed ==
    [][\A s \in Streams :
         /\ (/\ AllDelivered(s)
             /\ streams[s].body # <<>>
             /\ streams[s].body[Len(streams[s].body)] # "nl")
            => /\ streams[s].buffer # <<>>
               /\ Len(assistantMessageRef)
                      <= Len(ValuesOf(Terminated(streams[s].body)))
               /\ ~HasTerminator(Terminated(streams[s].body))
                      => (inputDisabled /\ ~streams[s].sawTerm)
         /\ (streams[s].pc = "reading" /\ streams'[s].pc = "done")
            => /\ messages' = messages
               /\ assistantMessageRef' = assistantMessageRef
               /\ ~inputDisabled']_vars

\* a body of a delta and a [DONE] frame without its line feed has been
\* read: the [DONE] is in the buffer and the flag is still set
C19_Witness ==
    /\ AllDelivered(1)
    /\ streams[1].body = <<"dh", "ta", "nl", "pfx", "done">>
    /\ streams[1].buffer = <<"pfx", "done">>
    /\ messages # <<>>
    /\ messages[Len(messages)] = [role |-> "assistant", text |-> <<"a">>]
    /\ inputDisabled

\* the texts that only an initialMessage prop holds
InitialTexts == {p[1] : p \in InitialMessages \ {NoItem}}

\* C20: the mount effects start no request and leave log and flag as
\* constructed, whatever initialMessage is; a request that carries an
\* initialMessage starts only in a step in which the prop changes, and then
\* carries the new value; the step that stores the thread identifier starts
\* none
C20_MountMessageNeverSent ==
    [][/\ call'.op = "mount" =>
             /\ Started' = {}
             /\ messages' = <<>>
             /\ ~inputDisabled'
       /\ \A s \in Streams :
             (Starts(s) /\ streams'[s].text \in InitialTexts) =>
                 /\ initialMessage' # initialMessage
                 /\ initialMessage' = Item(streams'[s].text)]_vars

\* the view was mounted with an initialMessage, the bootstrap returned the
\* identifier, the user typed, and no request has been started
C20_Witness ==
    /\ initialMessage = Item(<<"i">>)
    /\ threadId = ThreadIdValue
    /\ boot = "200"
    /\ call = Ran("onChange")
    /\ Started = {}

====
